---------------------------- MODULE Spec2Model ----------------------------
(***************************************************************************)
(* Fitness tracker backend: the store connection loop of the entry         *)
(* service (connectDB) and the request handlers of the account and         *)
(* activity API (routes/auth.js), over the four collections of the         *)
(* document store.                                                         *)
(***************************************************************************)
EXTENDS Naturals, Sequences, FiniteSets

VARIABLES
    accounts,     \* the User collection, in insertion order
    workouts,     \* the Workout collection
    metrics,      \* the Metrics collection
    plans,        \* the Plan collection; every document carries its _id
    nextId,       \* the next _id the Plan collection hands out
    reachable,    \* environment: the document store accepts connections
    connected,    \* mongoose.connect has resolved once
    inflight,     \* calls of connectDB awaiting mongoose.connect
    timers,       \* pending setTimeout(connectDB, 5000) callbacks
    attempts,     \* calls of connectDB so far, counted up to MaxAttempts
    pending,      \* register requests suspended between findOne and save
    last,         \* the last completed request and its response
    tick          \* alternates with every completed request

vars == <<accounts, workouts, metrics, plans, nextId, reachable, connected,
          inflight, timers, attempts, pending, last, tick>>

storeVars == <<accounts, workouts, metrics, plans, nextId>>
connVars == <<reachable, connected, inflight, timers, attempts>>

\* ------------------------------------------------------------------ bounds

MaxWorkouts == 2
MaxMetrics == 1
MaxPlans == 2
MaxClients == 2
MaxAttempts == 3

\* ------------------------------------------------------------- JS values

\* A field the request body does not carry.
Undefined == "<undefined>"

\* !v for a string-valued field: undefined and the empty string are falsy.
Falsy(v) == v \in {Undefined, ""}

\* v || d
OrElse(v, d) == IF Falsy(v) THEN d ELSE v

\* A numeric field of a request body: absent, a JSON number n, or a JSON
\* string holding the decimal digits of n.
NumUndefined == [t |-> "undefined", n |-> 0]
Num(n) == [t |-> "number", n |-> n]
NumStr(n) == [t |-> "string", n |-> n]

\* Variant: a presence check (v === undefined) in place of the truthiness check.
MissingNum(v) == v.t = "undefined"

\* !v for such a field: undefined and the number 0 are falsy; a non-empty
\* string, "0" included, is truthy.
FalsyNum(v) == v.t = "undefined" \/ (v.t = "number" /\ v.n = 0)

\* parseInt(v) of a number or of a string of decimal digits.
ParseInt(v) == v.n

\* The Number cast of the schema: a number is kept, a numeric string converted.
CastNumber(v) == v.n

\* ----------------------------------------------------------- connection

\* Every store call succeeds only over an established, live connection;
\* otherwise the awaited call throws into the handler's catch block.
StoreOK == connected /\ reachable

\* await mongoose.connect(MONGODB_URI) resolves: nothing further is scheduled.
ConnectResolve ==
    /\ inflight > 0
    /\ reachable
    /\ connected' = TRUE
    /\ inflight' = inflight - 1
    /\ UNCHANGED <<timers, attempts, reachable, storeVars, pending, last, tick>>

\* Variant: a catch block that logs the failure and schedules no retry.
ConnectRejectNoRetry ==
    /\ inflight > 0
    /\ ~reachable
    /\ inflight' = inflight - 1
    /\ UNCHANGED <<timers, connected, attempts, reachable, storeVars, pending, last, tick>>

\* await mongoose.connect(MONGODB_URI) rejects: setTimeout(connectDB, 5000).
ConnectReject ==
    /\ inflight > 0
    /\ ~reachable
    /\ inflight' = inflight - 1
    /\ timers' = timers + 1
    /\ UNCHANGED <<connected, attempts, reachable, storeVars, pending, last, tick>>

\* The retry timer fires and calls connectDB again.
RetryTimer ==
    /\ timers > 0
    /\ timers' = timers - 1
    /\ inflight' = inflight + 1
    /\ attempts' = IF attempts < MaxAttempts THEN attempts + 1 ELSE attempts
    /\ UNCHANGED <<connected, reachable, storeVars, pending, last, tick>>

\* Environment: the document store comes up or goes down.
StoreUp ==
    /\ ~reachable
    /\ reachable' = TRUE
    /\ UNCHANGED <<connected, inflight, timers, attempts, storeVars, pending, last, tick>>

StoreDown ==
    /\ reachable
    /\ reachable' = FALSE
    /\ UNCHANGED <<connected, inflight, timers, attempts, storeVars, pending, last, tick>>

\* ------------------------------------------------------------ responses

NoRequest == [op |-> "none", req |-> Undefined, status |-> 0, msg |-> Undefined,
              body |-> Undefined, ops |-> 0, reads |-> 0, writes |-> 0]

\* res.status(status).json(...), with the store calls the handler awaited
\* before it: ops calls, reads documents returned, writes documents written.
Respond(op, req, status, msg, body, ops, reads, writes) ==
    /\ last' = [op |-> op, req |-> req, status |-> status, msg |-> msg,
                body |-> body, ops |-> ops, reads |-> reads, writes |-> writes]
    /\ tick' = 1 - tick

\* The catch block of every handler.
ServerError(op, req, ops) ==
    Respond(op, req, 500, "Server error", Undefined, ops, 0, 0)

\* ------------------------------------------------------------- accounts

\* userSchema: the documents of the User collection.
UserRoles == {"client", "trainer"}

\* new User(userData): paths the data leaves out take the schema's defaults.
NewUser(userData) ==
    [userData EXCEPT
        !.role = IF @ = Undefined THEN "client" ELSE @,
        !.certification = IF @ = Undefined THEN "" ELSE @]

\* Variant: a role path without its enum.
UserValidNoEnum(doc) ==
    /\ ~Falsy(doc.fullname)
    /\ ~Falsy(doc.email)
    /\ ~Falsy(doc.password)
    /\ (doc.role = "client" => ~Falsy(doc.goal))
    /\ (doc.role = "trainer" => ~Falsy(doc.specialization) /\ ~Falsy(doc.experience))

\* The validators of userSchema, run by save(): required paths (a required
\* String rejects undefined and ''), the role enum, the role-conditional
\* required paths.
UserValid(doc) ==
    /\ ~Falsy(doc.fullname)
    /\ ~Falsy(doc.email)
    /\ ~Falsy(doc.password)
    /\ doc.role \in UserRoles
    /\ (doc.role = "client" => ~Falsy(doc.goal))
    /\ (doc.role = "trainer" => ~Falsy(doc.specialization) /\ ~Falsy(doc.experience))

\* Variant: an email path without unique: true, so no index refuses an insert.
NoUniqueIndex(accts, doc) == FALSE

\* email: { unique: true }: the unique index of the collection rejects an
\* insert whose email some stored document already has.
DuplicateKey(accts, doc) ==
    \E i \in 1..Len(accts) : accts[i].email = doc.email

\* newUser.save() throws: a validation error or a duplicate-key error.
SaveFails(accts, doc) == ~UserValid(doc) \/ DuplicateKey(accts, doc)

\* Variant: the lookup queries the fullname path with the email.
ExistingUserByName(accts, email) ==
    \E i \in 1..Len(accts) : accts[i].fullname = email

\* User.findOne({ email }) finds a document.
ExistingUser(accts, email) ==
    \E i \in 1..Len(accts) : accts[i].email = email

\* Variant: the trainer check tests the specialization only.
RegisterInvalidNoExperience(req) ==
    IF Falsy(req.fullname) \/ Falsy(req.email) \/ Falsy(req.password) \/ Falsy(req.role)
    THEN "Full name, email, password, and role are required"
    ELSE IF req.role = "client" /\ Falsy(req.goal)
    THEN "Fitness goal is required for client registration"
    ELSE IF req.role = "trainer" /\ Falsy(req.specialization)
    THEN "Specialization and experience are required for trainer registration"
    ELSE Undefined

\* The validation of the register handler: the message of the 400 response,
\* or Undefined when the request passes.
RegisterInvalid(req) ==
    IF Falsy(req.fullname) \/ Falsy(req.email) \/ Falsy(req.password) \/ Falsy(req.role)
    THEN "Full name, email, password, and role are required"
    ELSE IF req.role = "client" /\ Falsy(req.goal)
    THEN "Fitness goal is required for client registration"
    ELSE IF req.role = "trainer" /\ (Falsy(req.specialization) \/ Falsy(req.experience))
    THEN "Specialization and experience are required for trainer registration"
    ELSE Undefined

\* userData: the base fields plus those of the role.
UserData(req) ==
    [fullname |-> req.fullname, email |-> req.email, password |-> req.password,
     role |-> req.role,
     goal |-> IF req.role = "client" THEN req.goal ELSE Undefined,
     specialization |-> IF req.role = "trainer" THEN req.specialization ELSE Undefined,
     experience |-> IF req.role = "trainer" THEN req.experience ELSE Undefined,
     certification |-> IF req.role = "trainer" THEN OrElse(req.certification, "")
                       ELSE Undefined]

\* POST /register, handled without interruption.
Register(req) ==
    /\ UNCHANGED <<workouts, metrics, plans, nextId, connVars, pending>>
    /\ IF RegisterInvalid(req) # Undefined
       THEN /\ Respond("register", req, 400, RegisterInvalid(req), Undefined, 0, 0, 0)
            /\ UNCHANGED accounts
       ELSE IF ~StoreOK
       THEN /\ ServerError("register", req, 1)
            /\ UNCHANGED accounts
       ELSE IF ExistingUser(accounts, req.email)
       THEN /\ Respond("register", req, 400, "User already exists", Undefined, 1, 1, 0)
            /\ UNCHANGED accounts
       ELSE IF SaveFails(accounts, NewUser(UserData(req)))
       THEN /\ ServerError("register", req, 2)
            /\ UNCHANGED accounts
       ELSE /\ accounts' = Append(accounts, NewUser(UserData(req)))
            /\ Respond("register", req, 201, "Registered successfully", Undefined, 2, 0, 1)

\* POST /register up to its second await: the validation and
\* User.findOne({ email }); a request that passes both is suspended at save().
RegisterFind(c, req) ==
    /\ pending[c] = <<>>
    /\ UNCHANGED <<storeVars, connVars>>
    /\ IF RegisterInvalid(req) # Undefined
       THEN /\ Respond("register", req, 400, RegisterInvalid(req), Undefined, 0, 0, 0)
            /\ UNCHANGED pending
       ELSE IF ~StoreOK
       THEN /\ ServerError("register", req, 1)
            /\ UNCHANGED pending
       ELSE IF ExistingUser(accounts, req.email)
       THEN /\ Respond("register", req, 400, "User already exists", Undefined, 1, 1, 0)
            /\ UNCHANGED pending
       ELSE /\ pending' = [pending EXCEPT ![c] = <<req>>]
            /\ UNCHANGED <<last, tick>>

\* POST /register from await newUser.save() to the response.
RegisterSave(c) ==
    /\ pending[c] # <<>>
    /\ pending' = [pending EXCEPT ![c] = <<>>]
    /\ UNCHANGED <<workouts, metrics, plans, nextId, connVars>>
    /\ LET req == pending[c][1] IN
       IF ~StoreOK \/ SaveFails(accounts, NewUser(UserData(req)))
       THEN /\ ServerError("register", req, 2)
            /\ UNCHANGED accounts
       ELSE /\ accounts' = Append(accounts, NewUser(UserData(req)))
            /\ Respond("register", req, 201, "Registered successfully", Undefined, 2, 0, 1)

\* Variant: the lookup leaves the role out of the query.
MatchingUsersNoRole(accts, req) ==
    SelectSeq(accts, LAMBDA u : u.email = req.email /\ u.password = req.password)

\* User.findOne({ email, password, role }): the matching documents, first first.
MatchingUsers(accts, req) ==
    SelectSeq(accts, LAMBDA u : u.email = req.email /\ u.password = req.password
                                /\ u.role = req.role)

\* The response of a successful login: the base fields plus those of the role.
LoginResponse(user) ==
    [success |-> TRUE, fullname |-> user.fullname, email |-> user.email,
     role |-> user.role,
     goal |-> IF user.role = "client" THEN user.goal ELSE Undefined,
     specialization |-> IF user.role = "trainer" THEN user.specialization ELSE Undefined,
     experience |-> IF user.role = "trainer" THEN user.experience ELSE Undefined,
     certification |-> IF user.role = "trainer" THEN user.certification ELSE Undefined]

\* POST /login
Login(req) ==
    /\ UNCHANGED <<storeVars, connVars, pending>>
    /\ IF Falsy(req.email) \/ Falsy(req.password) \/ Falsy(req.role)
       THEN Respond("login", req, 400, "All fields are required", Undefined, 0, 0, 0)
       ELSE IF ~StoreOK
       THEN ServerError("login", req, 1)
       ELSE IF Len(MatchingUsers(accounts, req)) = 0
       THEN Respond("login", req, 400, "Invalid credentials or role", Undefined, 1, 0, 0)
       ELSE Respond("login", req, 200, Undefined,
                    LoginResponse(MatchingUsers(accounts, req)[1]), 1, 1, 0)

\* ------------------------------------------------------------- workouts

\* new Workout({...}): duration and calories go through parseInt, notes
\* default to ''.
NewWorkout(req) ==
    [email |-> req.email, type |-> req.type, duration |-> ParseInt(req.duration),
     calories |-> ParseInt(req.calories), date |-> req.date,
     notes |-> OrElse(req.notes, "")]

\* The presence check of the log-workout handler.
WorkoutMissing(req) ==
    Falsy(req.email) \/ Falsy(req.type) \/ FalsyNum(req.duration)
        \/ FalsyNum(req.calories) \/ Falsy(req.date)

\* POST /log-workout
LogWorkout(req) ==
    /\ UNCHANGED <<accounts, metrics, plans, nextId, connVars, pending>>
    /\ IF WorkoutMissing(req)
       THEN /\ Respond("log-workout", req, 400, "All required fields are missing",
                       Undefined, 0, 0, 0)
            /\ UNCHANGED workouts
       ELSE IF ~StoreOK
       THEN /\ ServerError("log-workout", req, 1)
            /\ UNCHANGED workouts
       ELSE /\ Len(workouts) < MaxWorkouts
            /\ workouts' = Append(workouts, NewWorkout(req))
            /\ Respond("log-workout", req, 200, "Workout logged", Undefined, 1, 0, 1)

\* Variant: the query carries no filter.
FindAllWorkouts(ws, email) == ws

\* Workout.find({ email })
FindWorkouts(ws, email) == SelectSeq(ws, LAMBDA w : w.email = email)

\* GET /workouts/:email
GetWorkouts(email) ==
    /\ UNCHANGED <<storeVars, connVars, pending>>
    /\ IF ~StoreOK
       THEN ServerError("workouts", email, 1)
       ELSE Respond("workouts", email, 200, Undefined, FindWorkouts(workouts, email),
                    1, Len(FindWorkouts(workouts, email)), 0)

\* -------------------------------------------------------------- metrics

\* new Metrics({...}): weight and bmi as given (cast to Number by the
\* schema), fat || 0.
NewMetrics(req) ==
    [email |-> req.email, date |-> req.date, weight |-> CastNumber(req.weight),
     bmi |-> CastNumber(req.bmi),
     fat |-> IF FalsyNum(req.fat) THEN 0 ELSE CastNumber(req.fat)]

\* The presence check of the metrics handler.
MetricsMissing(req) ==
    Falsy(req.email) \/ Falsy(req.date) \/ FalsyNum(req.weight) \/ FalsyNum(req.bmi)

\* POST /metrics
StoreMetrics(req) ==
    /\ UNCHANGED <<accounts, workouts, plans, nextId, connVars, pending>>
    /\ IF MetricsMissing(req)
       THEN /\ Respond("metrics", req, 400, "All required fields must be provided",
                       Undefined, 0, 0, 0)
            /\ UNCHANGED metrics
       ELSE IF ~StoreOK
       THEN /\ ServerError("metrics", req, 1)
            /\ UNCHANGED metrics
       ELSE /\ Len(metrics) < MaxMetrics
            /\ metrics' = Append(metrics, NewMetrics(req))
            /\ Respond("metrics", req, 200, "Metrics updated", Undefined, 1, 0, 1)

\* Metrics.find({ email })
FindMetrics(ms, email) == SelectSeq(ms, LAMBDA m : m.email = email)

\* GET /metrics/:email
GetMetrics(email) ==
    /\ UNCHANGED <<storeVars, connVars, pending>>
    /\ IF ~StoreOK
       THEN ServerError("get-metrics", email, 1)
       ELSE Respond("get-metrics", email, 200, Undefined, FindMetrics(metrics, email),
                    1, Len(FindMetrics(metrics, email)), 0)

\* ---------------------------------------------------------------- plans

\* new Plan({ trainer, client, plan }) with the _id the store gives it.
NewPlan(id, req) ==
    [id |-> id, trainer |-> req.trainer, client |-> req.client, plan |-> req.plan]

\* POST /plans
AssignPlan(req) ==
    /\ UNCHANGED <<accounts, workouts, metrics, connVars, pending>>
    /\ IF Falsy(req.trainer) \/ Falsy(req.client) \/ Falsy(req.plan)
       THEN /\ Respond("assign-plan", req, 400, "All fields are required", Undefined, 0, 0, 0)
            /\ UNCHANGED <<plans, nextId>>
       ELSE IF ~StoreOK
       THEN /\ ServerError("assign-plan", req, 1)
            /\ UNCHANGED <<plans, nextId>>
       ELSE /\ nextId <= MaxPlans
            /\ plans' = Append(plans, NewPlan(nextId, req))
            /\ nextId' = nextId + 1
            /\ Respond("assign-plan", req, 200, "Plan assigned", Undefined, 1, 0, 1)

\* Plan.find({ trainer })
FindPlans(ps, trainer) == SelectSeq(ps, LAMBDA p : p.trainer = trainer)

\* GET /plans/:trainer
GetPlans(trainer) ==
    /\ UNCHANGED <<storeVars, connVars, pending>>
    /\ IF ~StoreOK
       THEN ServerError("plans", trainer, 1)
       ELSE Respond("plans", trainer, 200, Undefined, FindPlans(plans, trainer),
                    1, Len(FindPlans(plans, trainer)), 0)

\* The documents of ps with _id id (none or one).
PlansById(ps, id) == SelectSeq(ps, LAMBDA p : p.id = id)

\* Variant: an update of every document (updateMany with an empty filter).
UpdateEvery(ps, id, client, plan) ==
    [i \in 1..Len(ps) |-> [ps[i] EXCEPT !.client = client, !.plan = plan]]

\* Plan.findByIdAndUpdate(id, { client, plan }): the update sets the two
\* paths of the document with that _id and no other; no document, no change.
UpdateById(ps, id, client, plan) ==
    [i \in 1..Len(ps) |->
        IF ps[i].id = id THEN [ps[i] EXCEPT !.client = client, !.plan = plan]
        ELSE ps[i]]

\* PUT /plans/:id
UpdatePlan(id, req) ==
    /\ UNCHANGED <<accounts, workouts, metrics, nextId, connVars, pending>>
    /\ IF ~StoreOK
       THEN /\ ServerError("update-plan", [id |-> id, client |-> req.client, plan |-> req.plan], 1)
            /\ UNCHANGED plans
       ELSE /\ plans' = UpdateById(plans, id, req.client, req.plan)
            /\ Respond("update-plan", [id |-> id, client |-> req.client, plan |-> req.plan],
                       200, "Plan updated", Undefined, 1, 0, Len(PlansById(plans, id)))

\* Variant: the delete removes every plan of the trainer of the plan named.
DeleteOfTrainer(ps, id) ==
    SelectSeq(ps, LAMBDA p : \A q \in {ps[i] : i \in 1..Len(ps)} :
                                q.id = id => p.trainer # q.trainer)

\* Plan.findByIdAndDelete(id)
DeleteById(ps, id) == SelectSeq(ps, LAMBDA p : p.id # id)

\* DELETE /plans/:id
DeletePlan(id) ==
    /\ UNCHANGED <<accounts, workouts, metrics, nextId, connVars, pending>>
    /\ IF ~StoreOK
       THEN /\ ServerError("delete-plan", id, 1)
            /\ UNCHANGED plans
       ELSE /\ plans' = DeleteById(plans, id)
            /\ Respond("delete-plan", id, 200, "Plan deleted", Undefined, 1, 0,
                       Len(PlansById(plans, id)))

\* ---------------------------------------------------------- diagnostics

\* POST /test: echoes the body; no store call.
Test(body) ==
    /\ UNCHANGED <<storeVars, connVars, pending>>
    /\ Respond("test", body, 200, "Test endpoint working", body, 0, 0, 0)

\* POST /logout: an acknowledgement; no store call.
Logout ==
    /\ UNCHANGED <<storeVars, connVars, pending>>
    /\ Respond("logout", Undefined, 200,
               "Logged out on client side. No server session stored.", Undefined, 0, 0, 0)

\* --------------------------------------------------------------- inputs

\* Owner and account emails.
Emails == {"a@x.com", "b@x.com"}

\* A well-formed request of each kind.
ClientReq ==
    [fullname |-> "F", email |-> "a@x.com", password |-> "pw", role |-> "client",
     goal |-> "G", specialization |-> Undefined, experience |-> "",
     certification |-> Undefined]

WorkoutReq ==
    [email |-> "a@x.com", type |-> "run", duration |-> Num(30), calories |-> Num(300),
     date |-> "2024-01-01", notes |-> Undefined]

MetricsReq ==
    [email |-> "a@x.com", date |-> "2024-01-01", weight |-> Num(70), bmi |-> Num(22),
     fat |-> NumUndefined]

\* The bodies of register requests: the role and its fields absent, empty
\* or present, and the bodies that lack one of the base fields.
RegisterBase ==
    [fullname : {"F"}, email : Emails, password : {"pw"},
     role : {"client", "trainer", "admin"},
     goal : {"", "G"}, specialization : {Undefined, "S"}, experience : {"", "E"},
     certification : {Undefined, "C"}]

RegisterReqs ==
    RegisterBase \cup
    {[ClientReq EXCEPT !.fullname = Undefined], [ClientReq EXCEPT !.email = Undefined],
     [ClientReq EXCEPT !.password = ""], [ClientReq EXCEPT !.role = Undefined]}

LoginReqs ==
    [email : {""} \cup Emails, password : {Undefined, "pw", "bad"},
     role : {Undefined, "client", "trainer"}]

WorkoutReqs ==
    [email : Emails, type : {"run"},
     duration : {NumUndefined, Num(0), Num(30), NumStr(0)},
     calories : {NumUndefined, Num(0), Num(300)}, date : {"2024-01-01"},
     notes : {Undefined}] \cup
    {[WorkoutReq EXCEPT !.email = Undefined], [WorkoutReq EXCEPT !.type = ""],
     [WorkoutReq EXCEPT !.date = Undefined], [WorkoutReq EXCEPT !.notes = "easy"]}

MetricsReqs ==
    [email : {"a@x.com"}, date : {"2024-01-01"},
     weight : {NumUndefined, Num(0), Num(70)}, bmi : {Num(0), Num(22), NumStr(0)},
     fat : {NumUndefined}] \cup
    {[MetricsReq EXCEPT !.email = ""], [MetricsReq EXCEPT !.date = Undefined]}

PlanReqs ==
    [trainer : {Undefined} \cup Emails, client : {"", "c@x.com"},
     plan : {Undefined, "squats"}]

\* The bodies of update requests: both fields given.
PlanUpdates == [client : {"c@x.com", "d@x.com"}, plan : {"squats", "rows"}]

\* _ids a request may name: those handed out and one never handed out.
PlanIds == 1..(MaxPlans + 1)

\* Connections a register request may arrive on concurrently.
Clients == 1..MaxClients

\* Register requests as concurrent clients send them: a client and a
\* trainer for each email, and one with a role outside the schema.
TrainerReq ==
    [ClientReq EXCEPT !.role = "trainer", !.goal = "", !.specialization = "S",
                      !.experience = "E"]

RaceReqs ==
    {[r EXCEPT !.email = e] : r \in {ClientReq, TrainerReq}, e \in Emails}
        \cup {[ClientReq EXCEPT !.role = "admin"]}

\* One request of each outcome per endpoint, for runs over the whole API.
SampleRegisterReqs ==
    {ClientReq, [ClientReq EXCEPT !.goal = ""], [ClientReq EXCEPT !.role = "admin"]}

SampleLoginReqs ==
    {[email |-> "a@x.com", password |-> "pw", role |-> "client"],
     [email |-> "a@x.com", password |-> "bad", role |-> "client"],
     [email |-> "a@x.com", password |-> Undefined, role |-> "client"]}

SampleWorkoutReqs == {WorkoutReq, [WorkoutReq EXCEPT !.duration = Num(0)]}

SampleMetricsReqs == {MetricsReq, [MetricsReq EXCEPT !.bmi = Num(0)]}

SamplePlanReqs ==
    {[trainer |-> "a@x.com", client |-> "c@x.com", plan |-> "squats"],
     [trainer |-> "a@x.com", client |-> "c@x.com", plan |-> Undefined]}

SamplePlanUpdates == {[client |-> "d@x.com", plan |-> "rows"]}

\* ----------------------------------------------------------- the system

\* The process after startup: empty collections, connectDB() called once
\* and awaiting mongoose.connect, no request handled yet.
Init ==
    /\ accounts = <<>>
    /\ workouts = <<>>
    /\ metrics = <<>>
    /\ plans = <<>>
    /\ nextId = 1
    /\ reachable \in BOOLEAN
    /\ connected = FALSE
    /\ inflight = 1
    /\ timers = 0
    /\ attempts = 1
    /\ pending = [c \in Clients |-> <<>>]
    /\ last = NoRequest
    /\ tick = 0

\* The store comes up and the first connection attempt resolves.
Startup == ConnectResolve \/ StoreUp

\* The connection loop: attempts rejected and retried.
Retry == ConnectReject \/ RetryTimer

\* The whole API, one request at a time, over a store that comes and goes.
Next ==
    \/ Startup
    \/ StoreDown
    \/ \E req \in SampleRegisterReqs : Register(req)
    \/ \E req \in SampleLoginReqs : Login(req)
    \/ \E req \in SampleWorkoutReqs : LogWorkout(req)
    \/ GetWorkouts("a@x.com")
    \/ \E req \in SampleMetricsReqs : StoreMetrics(req)
    \/ GetMetrics("a@x.com")
    \/ \E req \in SamplePlanReqs : AssignPlan(req)
    \/ GetPlans("a@x.com")
    \/ \E id \in PlanIds, req \in SamplePlanUpdates : UpdatePlan(id, req)
    \/ \E id \in PlanIds : DeletePlan(id)
    \/ Test("ping")
    \/ Logout

Spec == Init /\ [][Next]_vars

\* The event loop runs a settled promise's continuation and a due timer's
\* callback.
Fairness ==
    /\ WF_vars(ConnectResolve)
    /\ WF_vars(ConnectReject)
    /\ WF_vars(RetryTimer)

\* The connection loop under the account endpoints.
NextConn ==
    \/ Startup
    \/ Retry
    \/ StoreDown
    \/ \E req \in SampleRegisterReqs : Register(req)
    \/ \E req \in SampleLoginReqs : Login(req)
    \/ Test("ping")
    \/ Logout

SpecConn == Init /\ [][NextConn]_vars /\ Fairness

\* Accounts: registration and login, one request at a time.
NextAccounts ==
    \/ Startup
    \/ \E req \in RegisterReqs : Register(req)
    \/ \E req \in LoginReqs : Login(req)

SpecAccounts == Init /\ [][NextAccounts]_vars

\* Registration with concurrent requests interleaving at the awaits.
NextRace ==
    \/ Startup
    \/ \E c \in Clients, req \in RaceReqs : RegisterFind(c, req)
    \/ \E c \in Clients : RegisterSave(c)

SpecRace == Init /\ [][NextRace]_vars

\* Workouts and metrics.
NextActivity ==
    \/ Startup
    \/ \E req \in WorkoutReqs : LogWorkout(req)
    \/ \E email \in Emails : GetWorkouts(email)
    \/ \E req \in MetricsReqs : StoreMetrics(req)
    \/ GetMetrics("a@x.com")

SpecActivity == Init /\ [][NextActivity]_vars

\* Plans.
NextPlans ==
    \/ Startup
    \/ \E req \in PlanReqs : AssignPlan(req)
    \/ \E trainer \in Emails : GetPlans(trainer)
    \/ \E id \in PlanIds, req \in PlanUpdates : UpdatePlan(id, req)
    \/ \E id \in PlanIds : DeletePlan(id)

SpecPlans == Init /\ [][NextPlans]_vars

\* --------------------------------------------------------------- claims

\* The number of stored accounts with email e.
CountFor(accts, e) == Cardinality({i \in 1..Len(accts) : accts[i].email = e})

\* A register request that meets the data model: the base fields, a role of
\* the model and the fields of that role.
ValidRegister(req) ==
    /\ ~Falsy(req.fullname) /\ ~Falsy(req.email) /\ ~Falsy(req.password)
    /\ req.role \in {"client", "trainer"}
    /\ (req.role = "client" => ~Falsy(req.goal))
    /\ (req.role = "trainer" => ~Falsy(req.specialization) /\ ~Falsy(req.experience))

\* A request completes in this step.
Completes(op) == tick' # tick /\ last'.op = op

\* The steps C1 allows.
C1_FirstRegisterWinsStep ==
    /\ (Completes("register") /\ ValidRegister(last'.req) /\ StoreOK) =>
          IF CountFor(accounts, last'.req.email) = 0
          THEN /\ last'.status = 201
               /\ Len(accounts') = Len(accounts) + 1
               /\ SubSeq(accounts', 1, Len(accounts)) = accounts
               /\ CountFor(accounts', last'.req.email) = 1
          ELSE /\ last'.status = 400
               /\ last'.msg = "User already exists"
               /\ accounts' = accounts
    /\ \A e \in Emails : CountFor(accounts, e) > 0 => CountFor(accounts', e) > 0

\* C1: with requests handled one at a time and the store available, a valid
\* Register for an email without an account responds 201 and adds exactly
\* one account for it; a valid Register for an email that has an account
\* responds 400 'User already exists' and leaves the accounts unchanged; and
\* an email that has an account keeps it, so every later Register meets the
\* second case.
C1_FirstRegisterWins == [][C1_FirstRegisterWinsStep]_vars

\* C1 witness: a valid Register for an email that already has one account
\* was answered 400 'User already exists'.
C1_Witness ==
    /\ last.op = "register"
    /\ ValidRegister(last.req)
    /\ last.status = 400
    /\ last.msg = "User already exists"
    /\ CountFor(accounts, last.req.email) = 1
    /\ \E i \in 1..Len(accounts) :
          accounts[i].email = last.req.email /\ accounts[i].role # last.req.role

\* C2: under any interleaving of concurrent Register requests at their
\* awaits, the accounts collection holds at most one account per email.
C2_EmailUnique == \A e \in Emails : CountFor(accounts, e) <= 1

\* C2 witness: two requests for one email both passed the existence check;
\* one was stored, the other's insert was refused and answered 500.
C2_Witness ==
    /\ last.op = "register"
    /\ ValidRegister(last.req)
    /\ last.status = 500
    /\ last.ops = 2
    /\ StoreOK
    /\ CountFor(accounts, last.req.email) = 1

\* The account a valid register request stores.
StoredAs(doc, req) ==
    /\ doc.fullname = req.fullname /\ doc.email = req.email
    /\ doc.password = req.password /\ doc.role = req.role
    /\ (req.role = "client" => doc.goal = req.goal)
    /\ (req.role = "trainer" =>
          /\ doc.specialization = req.specialization
          /\ doc.experience = req.experience
          /\ doc.certification = IF Falsy(req.certification) THEN ""
                                 ELSE req.certification)

\* The fields of its role a register request lacks.
RoleFieldMissing(req) ==
    \/ req.role = "client" /\ Falsy(req.goal)
    \/ req.role = "trainer" /\ (Falsy(req.specialization) \/ Falsy(req.experience))

\* The steps C3 allows.
C3_RoleFieldsStep ==
    (/\ Completes("register")
     /\ ~Falsy(last'.req.fullname) /\ ~Falsy(last'.req.email)
     /\ ~Falsy(last'.req.password) /\ ~Falsy(last'.req.role)) =>
        /\ RoleFieldMissing(last'.req) =>
              /\ last'.status = 400
              /\ last'.ops = 0
              /\ accounts' = accounts
        /\ (/\ ValidRegister(last'.req)
            /\ CountFor(accounts, last'.req.email) = 0
            /\ StoreOK) =>
              /\ last'.status = 201
              /\ Len(accounts') = Len(accounts) + 1
              /\ SubSeq(accounts', 1, Len(accounts)) = accounts
              /\ StoredAs(accounts'[Len(accounts')], last'.req)

\* C3: a Register with fullname, email, password and role present that
\* lacks a field of its role (goal for a client; specialization or
\* experience for a trainer) is answered 400 before any store call and the
\* accounts are unchanged; a client or trainer Register with the fields of
\* its role, for an email not yet registered and with the store available,
\* is answered 201 and the account is stored with those fields
\* (certification '' when a trainer gives none).
C3_RoleFields == [][C3_RoleFieldsStep]_vars

\* C3 witness: a trainer registered without a certification is stored with
\* certification ''.
C3_Witness ==
    /\ last.op = "register"
    /\ last.status = 201
    /\ last.req.role = "trainer"
    /\ last.req.certification = Undefined
    /\ accounts[Len(accounts)].email = last.req.email
    /\ accounts[Len(accounts)].certification = ""

\* C3 witness of the rejection: a trainer without experience was answered 400.
C3_WitnessRejected ==
    /\ last.op = "register"
    /\ last.status = 400
    /\ last.req.role = "trainer"
    /\ last.req.specialization = "S"
    /\ Falsy(last.req.experience)
    /\ Len(accounts) > 0

\* Account u matches the three values of login request req exactly.
Matches(u, req) ==
    u.email = req.email /\ u.password = req.password /\ u.role = req.role

\* The steps C4 allows.
C4_LoginStep ==
    Completes("login") =>
        /\ UNCHANGED storeVars
        /\ (/\ ~Falsy(last'.req.email) /\ ~Falsy(last'.req.password)
            /\ ~Falsy(last'.req.role) /\ StoreOK) =>
              IF \E i \in 1..Len(accounts) : Matches(accounts[i], last'.req)
              THEN /\ last'.status = 200
                   /\ last'.body.success
                   /\ \E i \in 1..Len(accounts) :
                         /\ Matches(accounts[i], last'.req)
                         /\ last'.body.fullname = accounts[i].fullname
                         /\ last'.body.email = accounts[i].email
                         /\ last'.body.role = accounts[i].role
                         /\ (accounts[i].role = "client" =>
                                last'.body.goal = accounts[i].goal)
                         /\ (accounts[i].role = "trainer" =>
                                /\ last'.body.specialization = accounts[i].specialization
                                /\ last'.body.experience = accounts[i].experience
                                /\ last'.body.certification = accounts[i].certification)
              ELSE /\ last'.status = 400
                   /\ last'.msg = "Invalid credentials or role"

\* C4: a Login with non-empty email, password and role, the store being
\* available, is answered 200 with success: true exactly when a stored
\* account matches all three values; the response then carries that
\* account's fullname, email and role, plus goal for a client or
\* specialization, experience and certification for a trainer; otherwise
\* it is answered 400 'Invalid credentials or role'. No Login changes the store.
C4_Login == [][C4_LoginStep]_vars

\* C4 witness: a Login whose email and password are those of a stored
\* account and whose role is not was answered 400.
C4_Witness ==
    /\ last.op = "login"
    /\ last.status = 400
    /\ last.msg = "Invalid credentials or role"
    /\ \E i \in 1..Len(accounts) :
          /\ accounts[i].email = last.req.email
          /\ accounts[i].password = last.req.password
          /\ accounts[i].role # last.req.role

\* C4 witness of the success: a trainer logged in and got the trainer fields.
C4_WitnessSuccess ==
    /\ last.op = "login"
    /\ last.status = 200
    /\ last.body.role = "trainer"
    /\ last.body.specialization = "S"
    /\ last.body.certification = ""

\* The steps C10 allows.
C10_AccountsStep ==
    /\ \A i \in 1..Len(accounts') :
          /\ accounts'[i].role \in {"client", "trainer"}
          /\ (accounts'[i].role = "client" => ~Falsy(accounts'[i].goal))
          /\ (accounts'[i].role = "trainer" =>
                /\ ~Falsy(accounts'[i].specialization)
                /\ ~Falsy(accounts'[i].experience))
    /\ (/\ Completes("register")
        /\ ~Falsy(last'.req.role)
        /\ last'.req.role \notin {"client", "trainer"}) =>
           /\ accounts' = accounts
           /\ last'.status # 201
    /\ Len(accounts') >= Len(accounts)
    /\ SubSeq(accounts', 1, Len(accounts)) = accounts

\* C10: every stored account has role client or trainer; a client account
\* has a non-empty goal and a trainer account non-empty specialization and
\* experience; a Register whose role is another non-empty value creates no
\* account; and no step modifies or removes a stored account.
C10_Accounts == [][C10_AccountsStep]_vars

\* C10 witness: a Register with role 'admin' for a free email passed the
\* handler's checks and reached the store, which refused it; the stored
\* trainer account is as it was.
C10_Witness ==
    /\ last.op = "register"
    /\ last.req.role = "admin"
    /\ last.status = 500
    /\ last.ops = 2
    /\ StoreOK
    /\ Len(accounts) = 1
    /\ accounts[1].role = "trainer"
    /\ accounts[1].email # last.req.email

\* The steps C5 allows.
C5_ZeroRejectedStep ==
    /\ (/\ Completes("log-workout")
        /\ (last'.req.duration = Num(0) \/ last'.req.calories = Num(0))) =>
           /\ last'.status = 400
           /\ last'.ops = 0
           /\ UNCHANGED storeVars
    /\ (/\ Completes("metrics")
        /\ (last'.req.weight = Num(0) \/ last'.req.bmi = Num(0))) =>
           /\ last'.status = 400
           /\ last'.ops = 0
           /\ UNCHANGED storeVars

\* C5: a Log-workout request whose duration or calories is the number 0,
\* and a Store-metric request whose weight or bmi is the number 0, is
\* answered 400 before any store call, whatever its other fields, and the
\* store is unchanged.
C5_ZeroRejected == [][C5_ZeroRejectedStep]_vars

\* C5 witness: with the store available, a workout with every other field
\* present and duration 0 was answered 400.
C5_Witness ==
    /\ last.op = "log-workout"
    /\ last.req = [WorkoutReq EXCEPT !.duration = Num(0)]
    /\ last.status = 400
    /\ StoreOK

\* C5 witness for metrics: bmi 0 beside a present weight was answered 400.
C5_WitnessMetrics ==
    /\ last.op = "metrics"
    /\ last.req = [MetricsReq EXCEPT !.bmi = Num(0)]
    /\ last.status = 400
    /\ StoreOK

\* The positions at which two sequences of equal length differ.
Differing(a, b) == {i \in 1..Len(a) : a[i] # b[i]}

\* The steps C6 allows.
C6_PlansStep ==
    /\ (Completes("update-plan") /\ StoreOK) =>
          /\ last'.status = 200
          /\ Len(plans') = Len(plans)
          /\ \A i \in 1..Len(plans) :
                /\ plans'[i].id = plans[i].id
                /\ plans'[i].trainer = plans[i].trainer
                /\ IF plans[i].id = last'.req.id
                   THEN /\ plans'[i].client = last'.req.client
                        /\ plans'[i].plan = last'.req.plan
                   ELSE plans'[i] = plans[i]
    /\ (Completes("delete-plan") /\ StoreOK) =>
          /\ last'.status = 200
          /\ \A i \in 1..Len(plans') : plans'[i].id # last'.req
          /\ \A i \in 1..Len(plans) :
                plans[i].id # last'.req => \E j \in 1..Len(plans') : plans'[j] = plans[i]
          /\ Len(plans') = Cardinality({i \in 1..Len(plans) : plans[i].id # last'.req})
    /\ (Completes("plans") /\ StoreOK) =>
          /\ last'.status = 200
          /\ \A j \in 1..Len(last'.body) :
                /\ last'.body[j].trainer = last'.req
                /\ \E i \in 1..Len(plans) : plans[i] = last'.body[j]
          /\ \A i \in 1..Len(plans) :
                plans[i].trainer = last'.req =>
                    \E j \in 1..Len(last'.body) : last'.body[j] = plans[i]
          /\ Len(last'.body) = Cardinality({i \in 1..Len(plans) : plans[i].trainer = last'.req})
    /\ \A i \in 1..Len(plans') : plans'[i].id < nextId'
    /\ \A i, j \in 1..Len(plans') : plans'[i].id = plans'[j].id => i = j
    /\ nextId' >= nextId

\* C6: an Update plan by identifier changes, of the record with that
\* identifier, the client and plan fields only (to the values sent) and no
\* other record; a Delete plan by identifier removes exactly the record with
\* that identifier; identifiers are never handed out twice; and a List
\* trainer plans returns exactly the stored plans of that trainer, so a
\* deleted plan is absent from it and the trainer's other plans are in it.
C6_Plans == [][C6_PlansStep]_vars

\* C6 witness: of a trainer's two plans one was updated and then deleted;
\* the listing for the trainer returns the other one alone.
C6_Witness ==
    /\ last.op = "plans"
    /\ last.status = 200
    /\ nextId = 3
    /\ Len(plans) = 1
    /\ Len(last.body) = 1
    /\ last.body[1].client = "d@x.com"
    /\ last.body[1].plan = "rows"

\* C6 witness of the update: the updated record keeps its trainer beside an
\* untouched record of the same trainer.
C6_WitnessUpdate ==
    /\ last.op = "update-plan"
    /\ last.status = 200
    /\ Len(plans) = 2
    /\ plans[1].trainer = plans[2].trainer
    /\ \E i \in 1..2 : plans[i].id = last.req.id /\ plans[i].client = "d@x.com"
    /\ \E i \in 1..2 : plans[i].id # last.req.id /\ plans[i].client = "c@x.com"

\* The workout record a Log workout request stores.
WorkoutOf(req) ==
    [email |-> req.email, type |-> req.type, duration |-> req.duration.n,
     calories |-> req.calories.n, date |-> req.date,
     notes |-> IF req.notes = Undefined THEN "" ELSE req.notes]

\* The steps C7 allows.
C7_WorkoutsStep ==
    /\ (Completes("workouts") /\ StoreOK) =>
          /\ last'.status = 200
          /\ UNCHANGED storeVars
          /\ \A j \in 1..Len(last'.body) :
                /\ last'.body[j].email = last'.req
                /\ \E i \in 1..Len(workouts) : workouts[i] = last'.body[j]
          /\ Len(last'.body) = Cardinality({i \in 1..Len(workouts) : workouts[i].email = last'.req})
          /\ ((\A i \in 1..Len(workouts) : workouts[i].email # last'.req) =>
                last'.body = <<>>)
    /\ (Completes("log-workout") /\ last'.status = 200) =>
          /\ workouts' = Append(workouts, WorkoutOf(last'.req))
    /\ (~(Completes("log-workout") /\ last'.status = 200)) => workouts' = workouts

\* C7: with the store available, List workouts for email e is answered 200
\* with exactly the stored workout records whose owner email is e, the empty
\* array when there is none, whether or not an account with email e exists;
\* and each successful Log workout for e adds one record, owned by e.
C7_Workouts == [][C7_WorkoutsStep]_vars

\* C7 witness: with workouts of both emails stored and no account at all,
\* the listing for one email returns its single record.
C7_Witness ==
    /\ last.op = "workouts"
    /\ last.status = 200
    /\ accounts = <<>>
    /\ Len(workouts) = 2
    /\ workouts[1].email # workouts[2].email
    /\ Len(last.body) = 1
    /\ last.body[1].email = last.req

\* C7 witness of the empty listing: records exist, none of the email asked for.
C7_WitnessEmpty ==
    /\ last.op = "workouts"
    /\ last.status = 200
    /\ Len(workouts) > 0
    /\ last.body = <<>>

\* The steps C8 allows of the connection loop.
C8_RetryStep ==
    /\ (inflight' < inflight /\ ~reachable) =>
          /\ timers' = timers + 1
          /\ inflight' = inflight - 1
          /\ ~connected'
    /\ (inflight' < inflight /\ reachable) =>
          /\ timers' = timers
          /\ inflight' = inflight - 1
          /\ connected'
    /\ (timers' < timers) =>
          /\ timers' = timers - 1
          /\ inflight' = inflight + 1

\* The attempts in flight or scheduled.
C8_OnePending ==
    /\ inflight + timers <= 1
    /\ ~connected => inflight + timers = 1
    /\ connected => inflight + timers = 0

\* C8: a failed connection attempt schedules exactly one retry and a
\* successful one none, however many attempts went before; a retry timer
\* starts exactly one attempt; until the connection is established exactly
\* one attempt is in flight or scheduled, and none after; and if the store
\* becomes and stays reachable the connection is eventually established.
C8_Connection ==
    /\ [][C8_RetryStep]_vars
    /\ []C8_OnePending
    /\ (<>[]reachable => <>connected)

\* C8 witness: the connection was established by a retry, after at least
\* one failed attempt.
C8_Witness ==
    /\ connected
    /\ attempts >= 2
    /\ inflight = 0
    /\ timers = 0

\* The messages of the handlers' required-field checks.
ValidationMsgs ==
    {"Full name, email, password, and role are required",
     "Fitness goal is required for client registration",
     "Specialization and experience are required for trainer registration",
     "All fields are required",
     "All required fields are missing",
     "All required fields must be provided"}

\* The last request passed its handler's required-field validation.
PassedValidation ==
    last.op # "none" /\ ~(last.status = 400 /\ last.msg \in ValidationMsgs)

\* C9, as stated: every request that passes the required-field validation
\* performs exactly one store operation before its response and touches at
\* most one record.
C9_ExactlyOneStoreOperation ==
    PassedValidation => last.ops = 1 /\ last.reads + last.writes <= 1

\* Sequence a without its k-th element.
Without(a, k) == [i \in 1..(Len(a) - 1) |-> IF i < k THEN a[i] ELSE a[i + 1]]

\* Collection b is collection a with at most one record added, replaced or removed.
AtMostOneRecordWritten(a, b) ==
    \/ b = a
    \/ Len(b) = Len(a) + 1 /\ SubSeq(b, 1, Len(a)) = a
    \/ Len(b) = Len(a) /\ Cardinality(Differing(a, b)) <= 1
    \/ Len(b) + 1 = Len(a) /\ \E k \in 1..Len(a) : b = Without(a, k)

\* The store calls of the last request, per endpoint.
C9_CallsPerEndpoint ==
    /\ (last.op # "none" /\ ~PassedValidation) => last.ops = 0 /\ last.writes = 0
    /\ PassedValidation =>
          /\ last.op \in {"test", "logout"} => last.ops = 0
          /\ last.op = "register" =>
                /\ last.ops \in {1, 2}
                /\ last.status = 201 => last.ops = 2 /\ last.writes = 1
                /\ last.status = 400 => last.ops = 1 /\ last.writes = 0
          /\ last.op \notin {"test", "logout", "register"} => last.ops = 1
          /\ last.op \in {"workouts", "get-metrics", "plans"} =>
                last.writes = 0 /\ (last.status = 200 => last.reads = Len(last.body))
          /\ last.op \notin {"workouts", "get-metrics", "plans"} => last.reads <= 1
          /\ last.writes <= 1

\* A step writes at most one record, of at most one collection.
C9_OneRecordStep ==
    /\ Cardinality({k \in 1..4 :
           <<accounts, workouts, metrics, plans>>[k] #
           <<accounts', workouts', metrics', plans'>>[k]}) <= 1
    /\ AtMostOneRecordWritten(accounts, accounts')
    /\ AtMostOneRecordWritten(workouts, workouts')
    /\ AtMostOneRecordWritten(metrics, metrics')
    /\ AtMostOneRecordWritten(plans, plans')
    /\ (tick' # tick /\ last'.writes = 0) => UNCHANGED storeVars

\* C9 amended: a request that passes the required-field validation performs
\* one store operation before its response, except Register, which performs
\* the existence lookup and, when no account has the email, the insert as a
\* second one, and Diagnostic echo and Logout, which perform none; a request
\* that fails the validation performs none; and a request writes at most one
\* record of one collection (a listing reads every matching record).
C9_StoreCalls == []C9_CallsPerEndpoint /\ [][C9_OneRecordStep]_vars

\* C9 witness: a Register that passed validation was answered 201 after two
\* store operations, the lookup and the insert.
C9_Witness ==
    /\ last.op = "register"
    /\ last.status = 201
    /\ last.ops = 2
    /\ last.writes = 1
    /\ Len(accounts) = 1
    /\ Len(workouts) = 1
    /\ Len(plans) = 2

=============================================================================
